---------------------------- MODULE Spec2Model ----------------------------
(***************************************************************************)
(* Model of app.py, a single-user command-line store inventory: a peewee   *)
(* table Product kept in inventory.db, a seed import from inventory.csv at *)
(* startup, a menu loop with the commands add, view and backup, and the    *)
(* price and date conversions between text and stored values.              *)
(*                                                                         *)
(* Text is modelled as a sequence of one-character strings, so that the    *)
(* conversions are computed character by character as the code does.       *)
(***************************************************************************)
EXTENDS Integers, Sequences, FiniteSets, TLC

VARIABLES
    \* ---- the session (app.py run as a program) ----
    pc,        \* where the program is: "off" (not running), a prompt, "done", "fault"
    table,     \* the rows of Product in inventory.db, in insertion order
    record,    \* get_product_details_from_user's record while it is being filled
    out,       \* the lines print() wrote during the last step
    shown,     \* the product display_product wrote during the last step (<<>>: none)
    fault,     \* the exception that ended the program ("none" while there is none)
    backup,    \* the content of backup.csv
    seed,      \* inventory.csv: <<>> when the file is absent, else <<rows>>
    clock,     \* index in Moments of the last value datetime.now() returned
    runs,      \* how many times the program has been started
    input,     \* the line input() returned to the last step (<<>> when it read none)
    \* ---- the conversions applied as pure functions ----
    stage,     \* "input", "encoded", "decoded"
    cents,     \* the integer price the conversion starts from
    text,      \* format_price_int_to_str(cents)
    decoded,   \* format_price_str_to_int(text)
    dstage,    \* "input", "decoded", "raised", "encoded"
    datetext,  \* the date text the conversion starts from
    datetime,  \* format_date_str_to_datetime(datetext)
    dateout    \* format_date_datetime_to_str(datetime)

sessVars  == <<pc, table, record, out, shown, fault, backup, seed, clock, runs, input>>
codecVars == <<stage, cents, text, decoded, dstage, datetext, datetime, dateout>>
vars      == <<pc, table, record, out, shown, fault, backup, seed, clock, runs, input,
               stage, cents, text, decoded, dstage, datetext, datetime, dateout>>

---------------------------------------------------------------------------
(* Bounds of the model *)

\* the table holds at most this many rows (guards of Start and of the add command)
MaxRows == 3
\* the program is started at most this many times
MaxRuns == 2
\* the price round trip is applied to every cents value in 0..MaxCents
MaxCents == 99999
\* format_price_str_to_int is applied to every text of at most this many characters
MaxTextLen == 3

---------------------------------------------------------------------------
(* Python text and integers *)

Digits == <<"0", "1", "2", "3", "4", "5", "6", "7", "8", "9">>

IsDigit(ch) == \E i \in 1..10 : Digits[i] = ch

DigitVal(ch) == (CHOOSE i \in 1..10 : Digits[i] = ch) - 1

\* str(n) for n >= 0
RECURSIVE NatToStr(_)
NatToStr(n) ==
    IF n < 10 THEN <<Digits[n + 1]>>
    ELSE NatToStr(n \div 10) \o <<Digits[(n % 10) + 1]>>

\* str(n)
PyStr(n) == IF n < 0 THEN <<"-">> \o NatToStr(-n) ELSE NatToStr(n)

\* str.strip(): whitespace removed at both ends
RECURSIVE PyStrip(_)
PyStrip(s) ==
    IF s = <<>> THEN s
    ELSE IF s[1] = " " THEN PyStrip(Tail(s))
    ELSE IF s[Len(s)] = " " THEN PyStrip(SubSeq(s, 1, Len(s) - 1))
    ELSE s

\* str.lower() on the letters the menu reads
LowerChar(ch) ==
    CASE ch = "A" -> "a"
      [] ch = "V" -> "v"
      [] ch = "B" -> "b"
      [] ch = "Q" -> "q"
      [] ch = "X" -> "x"
      [] OTHER -> ch

PyLower(s) == [i \in 1..Len(s) |-> LowerChar(s[i])]

IsDigits(s) == Len(s) > 0 /\ \A i \in 1..Len(s) : IsDigit(s[i])

RECURSIVE DigitsVal(_)
DigitsVal(s) ==
    IF s = <<>> THEN 0
    ELSE DigitsVal(SubSeq(s, 1, Len(s) - 1)) * 10 + DigitVal(s[Len(s)])

\* int(s): surrounding whitespace is dropped, one sign is allowed, the rest must
\* be decimal digits; anything else raises ValueError (ok = FALSE).
\* (The texts of this model hold no underscore and no non-ASCII digit.)
PyInt(s) ==
    LET t    == PyStrip(s)
        sgn  == t # <<>> /\ t[1] \in {"+", "-"}
        body == IF sgn THEN Tail(t) ELSE t
    IN  IF IsDigits(body)
        THEN [ok |-> TRUE,
              val |-> IF sgn /\ t[1] = "-" THEN 0 - DigitsVal(body) ELSE DigitsVal(body)]
        ELSE [ok |-> FALSE, val |-> 0]

\* re.sub('[<chars>]', '', s): every occurrence of a character of chars removed
ReSub(chars, s) == SelectSeq(s, LAMBDA ch : ch \notin chars)

---------------------------------------------------------------------------
(* Price conversions *)

\* format_price_str_to_int without its test for a decimal point: every text is
\* read as whole currency units
format_price_str_to_int_units(pricestr) ==
    LET r == PyInt(ReSub({"$", "."}, pricestr))
    IN  [ok |-> r.ok, val |-> r.val * 100]

\* format_price_str_to_int
format_price_str_to_int(pricestr) ==
    IF \E i \in 1..Len(pricestr) : pricestr[i] = "."
    THEN PyInt(ReSub({"$", "."}, pricestr))
    ELSE LET r == PyInt(ReSub({"$"}, pricestr))
         IN  [ok |-> r.ok, val |-> r.val * 100]

\* format_price_int_to_str without its case for two digits: the general split
\* leaves nothing before the decimal point
format_price_int_to_str_no_two(price) ==
    LET pricestr == PyStr(price)
        n        == Len(pricestr)
    IN  IF n = 1 THEN <<"$", "0", ".", "0">> \o pricestr
        ELSE <<"$">> \o SubSeq(pricestr, 1, n - 2) \o <<".">> \o SubSeq(pricestr, n - 1, n)

\* format_price_int_to_str
format_price_int_to_str(price) ==
    LET pricestr == PyStr(price)
        n        == Len(pricestr)
    IN  IF n = 1 THEN <<"$", "0", ".", "0">> \o pricestr
        ELSE IF n = 2 THEN <<"$", "0", ".">> \o pricestr
        ELSE <<"$">> \o SubSeq(pricestr, 1, n - 2) \o <<".">> \o SubSeq(pricestr, n - 1, n)

\* re.search('\$?\.?\d+', pricestr) in get_price_from_user: the pattern may
\* start anywhere, '$' and '.' are each optional, one digit is enough.
PriceRegexMatches(pricestr) ==
    \E i \in 1..Len(pricestr) : \E dollar, dot \in BOOLEAN :
        LET a == IF dollar THEN i + 1 ELSE i
            b == IF dot THEN a + 1 ELSE a
        IN  /\ dollar => pricestr[i] = "$"
            /\ dot => (a <= Len(pricestr) /\ pricestr[a] = ".")
            /\ b <= Len(pricestr)
            /\ IsDigit(pricestr[b])

---------------------------------------------------------------------------
(* Date conversions.  A datetime is [y, m, d, t]: the day and the time of  *)
(* day t, 0 for 00:00.                                                     *)

IsLeap(y) == (y % 4 = 0 /\ y % 100 # 0) \/ y % 400 = 0

DaysInMonth(y, m) ==
    IF m = 2 THEN (IF IsLeap(y) THEN 29 ELSE 28)
    ELSE IF m \in {4, 6, 9, 11} THEN 30 ELSE 31

\* a > b on datetimes
Later(a, b) ==
    \/ a.y > b.y
    \/ a.y = b.y /\ a.m > b.m
    \/ a.y = b.y /\ a.m = b.m /\ a.d > b.d
    \/ a.y = b.y /\ a.m = b.m /\ a.d = b.d /\ a.t > b.t

\* str.split on one separator character
RECURSIVE SplitOn(_, _)
SplitOn(s, sep) ==
    IF \E i \in 1..Len(s) : s[i] = sep
    THEN LET i == CHOOSE k \in 1..Len(s) : s[k] = sep /\ \A j \in 1..(k - 1) : s[j] # sep
         IN  <<SubSeq(s, 1, i - 1)>> \o SplitOn(SubSeq(s, i + 1, Len(s)), sep)
    ELSE <<s>>

NoDate == [y |-> 1, m |-> 1, d |-> 1, t |-> 0]

\* datetime.strptime(datestr, '%m/%d/%Y'): month and day of one or two digits
\* (a leading zero allowed), a year of four digits, the whole text consumed and
\* the day checked against the month; anything else raises ValueError.
StrpTime(datestr) ==
    LET parts == SplitOn(datestr, "/")
    IN  IF /\ Len(parts) = 3
           /\ IsDigits(parts[1]) /\ Len(parts[1]) <= 2
           /\ IsDigits(parts[2]) /\ Len(parts[2]) <= 2
           /\ IsDigits(parts[3]) /\ Len(parts[3]) = 4
        THEN LET m == DigitsVal(parts[1])
                 d == DigitsVal(parts[2])
                 y == DigitsVal(parts[3])
             IN  IF m \in 1..12 /\ y >= 1 /\ d >= 1 /\ d <= DaysInMonth(y, m)
                 THEN [ok |-> TRUE, val |-> [y |-> y, m |-> m, d |-> d, t |-> 0]]
                 ELSE [ok |-> FALSE, val |-> NoDate]
        ELSE [ok |-> FALSE, val |-> NoDate]

\* the values datetime.now() returns, in the order of time
Moments ==
    << [y |-> 2021, m |-> 3, d |-> 4, t |-> 1],
       [y |-> 2021, m |-> 12, d |-> 25, t |-> 1] >>

\* format_date_str_to_datetime: no text (None or '') gives the current moment.
\* datestr is <<>> for None and '' alike, now is the value of datetime.now().
format_date_str_to_datetime(datestr, now) ==
    IF datestr # <<>> THEN StrpTime(datestr) ELSE [ok |-> TRUE, val |-> now]

Pad2(n) == IF n < 10 THEN <<"0">> \o NatToStr(n) ELSE NatToStr(n)

\* format_date_datetime_to_str: strftime '%m/%d/%Y' pads month and day to two
\* digits (the years of this model have four digits)
format_date_datetime_to_str(dt) ==
    Pad2(dt.m) \o <<"/">> \o Pad2(dt.d) \o <<"/">> \o NatToStr(dt.y)

---------------------------------------------------------------------------
(* The table Product and add_record_to_db *)

\* an id generator that hands out the largest product_id in use again
NextIdReused(tbl) ==
    IF tbl = <<>> THEN 1
    ELSE CHOOSE k \in {tbl[i].product_id : i \in 1..Len(tbl)} :
             \A i \in 1..Len(tbl) : tbl[i].product_id <= k

\* AutoField: SQLite gives a new row the largest product_id in use plus one
NextId(tbl) ==
    IF tbl = <<>> THEN 1
    ELSE 1 + (CHOOSE k \in {tbl[i].product_id : i \in 1..Len(tbl)} :
                 \A i \in 1..Len(tbl) : tbl[i].product_id <= k)

NameExists(tbl, name) == \E i \in 1..Len(tbl) : tbl[i].product_name = name

\* Product.create raises IntegrityError only on a violated constraint of the
\* table: every column is NOT NULL, and product_name = CharField() declares no
\* unique constraint, so a name already stored violates nothing.  A record
\* holds product_quantity as <<n>>, or as <<>> for None (the column a short
\* row of inventory.csv leaves out).
IntegrityError(rec) == rec.product_quantity = <<>>

\* Product.create: a new row with a fresh product_id
ProductCreate(tbl, rec) ==
    Append(tbl, [product_id       |-> NextId(tbl),
                 product_name     |-> rec.product_name,
                 product_quantity |-> rec.product_quantity[1],
                 product_price    |-> rec.product_price,
                 date_updated     |-> rec.date_updated])

\* product_record.save() at the end of the except branch, its one call: the
\* product_quantity and product_price it is to write are tuples there, and
\* IntegerField turns its value into a number with int(), which raises
\* TypeError on a tuple; row i is not written
ProductSave(tbl, i, product_record) ==
    [table |-> tbl, fault |-> "TypeError"]

\* the except branch of add_record_to_db: Product.get by name raises
\* DoesNotExist when no row has the name; the two assignments end in a comma,
\* so each stores a one-element tuple
UpdateExisting(tbl, rec) ==
    IF ~NameExists(tbl, rec.product_name)
    THEN [table |-> tbl, fault |-> "DoesNotExist"]
    ELSE LET i == CHOOSE k \in 1..Len(tbl) :
                     /\ tbl[k].product_name = rec.product_name
                     /\ \A j \in 1..(k - 1) : tbl[j].product_name # rec.product_name
             product_record ==
                 [tbl[i] EXCEPT !.product_quantity = <<rec.product_quantity>>,
                                !.product_price = <<rec.product_price>>,
                                !.date_updated = IF Later(rec.date_updated, @)
                                                 THEN rec.date_updated ELSE @]
         IN  ProductSave(tbl, i, product_record)

\* add_record_to_db: the table afterwards and the exception that escaped
add_record_to_db(tbl, rec) ==
    IF IntegrityError(rec)
    THEN UpdateExisting(tbl, rec)
    ELSE [table |-> ProductCreate(tbl, rec), fault |-> "none"]

---------------------------------------------------------------------------
(* load_data_from_csv.  A row of inventory.csv is the sequence of its     *)
(* fields; csv.DictReader names them by the header product_name,          *)
(* product_price, product_quantity, date_updated, and a field the row     *)
(* leaves out is None.                                                    *)

Field(row, k) == IF k <= Len(row) THEN row[k] ELSE <<>>

\* one iteration of the loop of load_data_from_csv.  The quantity texts of the
\* seed files of this model are integers, which IntegerField stores as such.
ImportRow(tbl, row, now) ==
    IF Len(row) < 2
    THEN [table |-> tbl, fault |-> "TypeError"]
    ELSE LET price == format_price_str_to_int(row[2])
             date  == format_date_str_to_datetime(Field(row, 4), now)
         IN  IF ~price.ok \/ ~date.ok
             THEN [table |-> tbl, fault |-> "ValueError"]
             ELSE add_record_to_db(tbl,
                      [product_name     |-> row[1],
                       product_price    |-> price.val,
                       product_quantity |-> IF Len(row) >= 3
                                            THEN <<PyInt(row[3]).val>> ELSE <<>>,
                       date_updated     |-> date.val])

\* the loop of load_data_from_csv with a try around each row: a row that
\* raises is skipped and the loop goes on
RECURSIVE ImportRowsSkipping(_, _, _)
ImportRowsSkipping(tbl, rows, now) ==
    IF rows = <<>> THEN [table |-> tbl, fault |-> "none"]
    ELSE ImportRowsSkipping(ImportRow(tbl, Head(rows), now).table, Tail(rows), now)

\* the loop of load_data_from_csv: an exception of a row ends it, and the rows
\* created before stay (peewee commits each statement)
RECURSIVE ImportRows(_, _, _)
ImportRows(tbl, rows, now) ==
    IF rows = <<>> THEN [table |-> tbl, fault |-> "none"]
    ELSE LET r == ImportRow(tbl, Head(rows), now)
         IN  IF r.fault # "none" THEN r
             ELSE ImportRows(r.table, Tail(rows), now)

\* the value of decoded before format_price_str_to_int has run
NoDecoded == [ok |-> FALSE, val |-> 0]

\* the value of datetime before format_date_str_to_datetime has run
NoDt == [ok |-> FALSE, val |-> NoDate]

\* the conversions not applied
PriceIdle == stage = "input" /\ cents = 0 /\ text = <<>> /\ decoded = NoDecoded
DateIdle == dstage = "input" /\ datetext = <<>> /\ datetime = NoDt /\ dateout = <<>>

NoSeedNotice == "inventory.csv file not found, no current data loaded to database"

\* load_data_from_csv without its except: FileNotFoundError escapes
load_data_from_csv_uncaught(tbl, file, now) ==
    IF file = <<>>
    THEN [table |-> tbl, fault |-> "FileNotFoundError", out |-> <<>>]
    ELSE LET r == ImportRows(tbl, file[1], now)
         IN  [table |-> r.table, fault |-> r.fault, out |-> <<>>]

\* load_data_from_csv: FileNotFoundError is the one exception it catches
load_data_from_csv(tbl, file, now) ==
    IF file = <<>>
    THEN [table |-> tbl, fault |-> "none", out |-> <<NoSeedNotice>>]
    ELSE LET r == ImportRows(tbl, file[1], now)
         IN  [table |-> r.table, fault |-> r.fault, out |-> <<>>]

---------------------------------------------------------------------------
(* backup_db_to_csv and display_product *)

\* the line backup_db_to_csv writes for one product
ProductRow(product) ==
    PyStr(product.product_id) \o <<",">> \o product.product_name \o <<",">>
    \o format_price_int_to_str(product.product_price) \o <<",">>
    \o PyStr(product.product_quantity) \o <<",">>
    \o format_date_datetime_to_str(product.date_updated) \o <<"\n">>

\* what backup_db_to_csv leaves in backup.csv: opened with 'w', so the old
\* content is gone, then one write per product
RECURSIVE BackupContent(_)
BackupContent(tbl) ==
    IF tbl = <<>> THEN <<>>
    ELSE ProductRow(Head(tbl)) \o BackupContent(Tail(tbl))

\* what display_product prints of a product
Display(product) ==
    [product_id |-> PyStr(product.product_id),
     product_name |-> product.product_name,
     price |-> format_price_int_to_str(product.product_price),
     quantity |-> PyStr(product.product_quantity),
     date |-> format_date_datetime_to_str(product.date_updated)]

---------------------------------------------------------------------------
(* The inputs of the model *)

W1 == << <<"w">>, <<"$", "5", ".", "0", "0">>, <<"1", "0">>, <<"3", "/", "4", "/", "2", "0", "2", "1">> >>
W2 == << <<"w">>, <<"$", "6">>, <<"2", "0">>, <<"1", "/", "2", "/", "2", "0", "2", "1">> >>
G1 == << <<"g">>, <<"7", ".", "2", "5">>, <<"2">>, <<"1", "2", "/", "2", "5", "/", "2", "0", "2", "0">> >>
NegativePrice == << <<"g">>, <<"-", "5">>, <<"1">>, <<"3", "/", "4", "/", "2", "0", "2", "1">> >>
BadPrice == << <<"g">>, <<"5", "x">>, <<"1">>, <<"3", "/", "4", "/", "2", "0", "2", "1">> >>
BadDate == << <<"g">>, <<"$", "7">>, <<"2">>, <<"1", "3", "/", "4", "5", "/", "2", "0", "2", "1">> >>
NoDateRow == << <<"g">>, <<"$", "7">>, <<"2">> >>
ShortRow == << <<"w">>, <<"$", "5">> >>

\* inventory.csv: absent (<<>>), or <<its rows>>
SeedFiles ==
    { <<>>,
      << <<W1>> >>,
      << <<W1, W2>> >>,
      << <<W1, BadPrice, G1>> >>,
      << <<G1, BadDate, W1>> >>,
      << <<NegativePrice, NoDateRow>> >>,
      << <<W1, ShortRow>> >>,
      << <<ShortRow>> >> }

MenuLines == { <<"A", " ">>, <<"v">>, <<" ", "b">>, <<"q">>, <<"x">> }
NameLines == { <<"w">>, <<"a", ",", "b">> }
QuantityLines == { <<" ", "3">>, <<"x">> }
PriceLines == { <<"5">>, <<"$", "1", ".", "5", "0">>, <<"-", "5">>, <<"5", "x">>, <<"$">> }
IdLines == { PyStr(i) : i \in 1..(MaxRows + 1) } \cup { <<"x">> }

\* backup.csv as an earlier run left it
OldBackup == <<"o", "l", "d", "\n">>

---------------------------------------------------------------------------
(* The session *)

\* the menu: the commands in the order of the OrderedDict
menu == <<"a", "v", "b">>

\* what the menu loop prints before it reads a line: each command's letter and
\* the docstring of its function
MenuText ==
    << "Enter q to quit.",
       "a)  Add a new product to the database ",
       "v)  View a single product's inventory ",
       "b)  Make a backup of the entire inventory  " >>

Init ==
    /\ pc = "off"
    /\ table = <<>>
    /\ record = <<>>
    /\ out = <<>>
    /\ shown = <<>>
    /\ fault = "none"
    /\ backup = OldBackup
    /\ seed \in SeedFiles
    /\ clock = 1
    /\ runs = 0
    /\ input = <<>>
    /\ PriceIdle
    /\ DateIdle

SeedLen == IF seed = <<>> THEN 0 ELSE Len(seed[1])

\* the program is started: initialize(), then the first rendering of the menu
Start ==
    /\ pc \in {"off", "done", "fault"}
    /\ runs < MaxRuns
    /\ Len(table) + SeedLen <= MaxRows
    /\ runs' = runs + 1
    /\ \E t \in clock..Len(Moments) :
         LET r == load_data_from_csv(table, seed, Moments[t])
         IN  /\ clock' = t
             /\ table' = r.table
             /\ fault' = r.fault
             /\ pc' = IF r.fault = "none" THEN "menu" ELSE "fault"
             /\ out' = IF r.fault = "none" THEN r.out \o MenuText ELSE r.out
    /\ record' = <<>>
    /\ shown' = <<>>
    /\ input' = <<>>
    /\ UNCHANGED <<backup, seed>>
    /\ UNCHANGED codecVars

\* backup_db_to_csv, run from the menu; opened is whether open() succeeded
BackupCommand(opened) ==
    IF opened
    THEN /\ backup' = BackupContent(table)
         /\ pc' = "menu"
         /\ fault' = "none"
         /\ out' = MenuText
    ELSE /\ backup' = backup
         /\ pc' = "fault"
         /\ fault' = "OSError"
         /\ out' = <<>>

\* one turn of the menu loop: a line is read, lowered and stripped
MenuInput ==
    /\ pc = "menu"
    /\ \E line \in MenuLines :
         LET choice == PyStrip(PyLower(line))
         IN  /\ input' = line
             /\ IF choice = <<menu[1]>>
                THEN /\ Len(table) < MaxRows
                     /\ pc' = "add_name" /\ out' = <<>>
                     /\ UNCHANGED <<backup, fault>>
                ELSE IF choice = <<menu[2]>>
                THEN /\ pc' = "view_id" /\ out' = <<>>
                     /\ UNCHANGED <<backup, fault>>
                ELSE IF choice = <<menu[3]>>
                THEN \E opened \in BOOLEAN : BackupCommand(opened)
                ELSE IF choice = <<"q">>
                THEN /\ pc' = "done" /\ out' = <<>>
                     /\ UNCHANGED <<backup, fault>>
                ELSE /\ pc' = "menu" /\ out' = MenuText
                     /\ UNCHANGED <<backup, fault>>
    /\ record' = <<>>
    /\ shown' = <<>>
    /\ UNCHANGED <<table, seed, clock, runs>>
    /\ UNCHANGED codecVars

QuantityError == "Quantity needs to be a number, please retry"
IdError == "Product id needs to be a number, please retry"

\* get_product_details_from_user: the name, any line
EnterName ==
    /\ pc = "add_name"
    /\ \E line \in NameLines : record' = <<line>> /\ input' = line
    /\ pc' = "add_quantity"
    /\ out' = <<>>
    /\ UNCHANGED <<table, shown, fault, backup, seed, clock, runs>>
    /\ UNCHANGED codecVars

\* get_quantity_from_user: one line read
EnterQuantity ==
    /\ pc = "add_quantity"
    /\ \E line \in QuantityLines :
         LET qty == PyInt(line)
         IN  /\ input' = line
             /\ IF qty.ok
                THEN /\ record' = Append(record, qty.val)
                     /\ pc' = "add_price"
                     /\ out' = <<>>
                ELSE /\ record' = record
                     /\ pc' = "add_quantity"
                     /\ out' = <<QuantityError>>
    /\ UNCHANGED <<table, shown, fault, backup, seed, clock, runs>>
    /\ UNCHANGED codecVars

\* get_price_from_user: one line read; with a price, the rest of add_record
EnterPrice ==
    /\ pc = "add_price"
    /\ \E line \in PriceLines : \E t \in clock..Len(Moments) :
         /\ input' = line
         /\ IF PriceRegexMatches(line)
            THEN LET price == format_price_str_to_int(line)
                 IN  IF price.ok
                     THEN LET r == add_record_to_db(table,
                                       [product_name     |-> record[1],
                                        product_quantity |-> <<record[2]>>,
                                        product_price    |-> price.val,
                                        date_updated     |-> Moments[t]])
                          IN  /\ table' = r.table
                              /\ fault' = r.fault
                              /\ pc' = IF r.fault = "none" THEN "menu" ELSE "fault"
                              /\ out' = IF r.fault = "none" THEN MenuText ELSE <<>>
                              /\ clock' = t
                              /\ record' = <<>>
                     ELSE /\ pc' = "fault"
                          /\ fault' = "ValueError"
                          /\ out' = <<>>
                          /\ record' = <<>>
                          /\ UNCHANGED <<table, clock>>
            ELSE /\ t = clock
                 /\ pc' = "add_price"
                 /\ out' = <<"Invalid price, please retry">>
                 /\ UNCHANGED <<table, fault, clock, record>>
    /\ UNCHANGED <<shown, backup, seed, runs>>
    /\ UNCHANGED codecVars

NotFoundMessage == "Sorry, product with this ID not found"

\* the second try of view_product_by_id with its except left out: the
\* DoesNotExist of Product.get escapes
ViewProductUncaught(tbl, id) ==
    IF \E i \in 1..Len(tbl) : tbl[i].product_id = id
    THEN [pc |-> "keypress", out |-> <<>>, fault |-> "none",
          shown |-> <<Display(tbl[CHOOSE i \in 1..Len(tbl) : tbl[i].product_id = id])>>]
    ELSE [pc |-> "fault", out |-> <<>>, fault |-> "DoesNotExist", shown |-> <<>>]

\* the second try of view_product_by_id: Product.get by product_id, then
\* display_product, which waits for a line; DoesNotExist is caught and reported,
\* and the function returns to the menu loop
ViewProduct(tbl, id) ==
    IF \E i \in 1..Len(tbl) : tbl[i].product_id = id
    THEN [pc |-> "keypress", out |-> <<>>, fault |-> "none",
          shown |-> <<Display(tbl[CHOOSE i \in 1..Len(tbl) : tbl[i].product_id = id])>>]
    ELSE [pc |-> "menu", out |-> <<NotFoundMessage>> \o MenuText, fault |-> "none",
          shown |-> <<>>]

\* view_product_by_id as it would be if viewing a product stamped it: the
\* row found gets the current moment as date_updated and is saved
EnterIdTouching ==
    /\ pc = "view_id"
    /\ \E line \in IdLines :
         LET id == PyInt(line)
         IN  /\ input' = line
             /\ IF ~id.ok
                THEN /\ pc' = "view_id"
                     /\ out' = <<IdError>>
                     /\ shown' = <<>>
                     /\ fault' = fault
                     /\ table' = table
                ELSE LET r == ViewProduct(table, id.val)
                     IN  /\ pc' = r.pc
                         /\ out' = r.out
                         /\ shown' = r.shown
                         /\ fault' = r.fault
                         /\ table' = [i \in 1..Len(table) |->
                                         IF table[i].product_id = id.val
                                         THEN [table[i] EXCEPT !.date_updated = Moments[clock]]
                                         ELSE table[i]]
    /\ UNCHANGED <<record, backup, seed, clock, runs>>
    /\ UNCHANGED codecVars

\* view_product_by_id: one line read; with a number, the lookup
EnterId ==
    /\ pc = "view_id"
    /\ \E line \in IdLines :
         LET id == PyInt(line)
         IN  /\ input' = line
             /\ IF ~id.ok
                THEN /\ pc' = "view_id"
                     /\ out' = <<IdError>>
                     /\ shown' = <<>>
                     /\ fault' = fault
                ELSE LET r == ViewProduct(table, id.val)
                     IN  /\ pc' = r.pc
                         /\ out' = r.out
                         /\ shown' = r.shown
                         /\ fault' = r.fault
    /\ UNCHANGED <<table, record, backup, seed, clock, runs>>
    /\ UNCHANGED codecVars

\* display_product's input('Press any key to continue '): a line is read
Keypress ==
    /\ pc = "keypress"
    /\ pc' = "menu"
    /\ out' = MenuText
    /\ shown' = <<>>
    /\ input' = <<>>
    /\ UNCHANGED <<table, record, fault, backup, seed, clock, runs>>
    /\ UNCHANGED codecVars

\* what input holds after a step in which input() raised instead of returning
Interrupted == <<"^C">>

\* input() raises KeyboardInterrupt (the user's Ctrl-C) instead of returning a
\* line.  The bare excepts catch it: get_quantity_from_user and the first try of
\* view_product_by_id report a bad number and ask again, and the second try of
\* view_product_by_id, which holds display_product and its input(), reports
\* the product as not found.  At the other prompts nothing catches it.
Interrupt ==
    /\ pc \in {"menu", "add_name", "add_quantity", "add_price", "view_id", "keypress"}
    /\ input' = Interrupted
    /\ IF pc = "add_quantity"
       THEN /\ pc' = pc /\ out' = <<QuantityError>>
            /\ UNCHANGED <<record, shown, fault>>
       ELSE IF pc = "view_id"
       THEN /\ pc' = pc /\ out' = <<IdError>>
            /\ UNCHANGED <<record, shown, fault>>
       ELSE IF pc = "keypress"
       THEN /\ pc' = "menu" /\ out' = <<NotFoundMessage>> \o MenuText
            /\ shown' = <<>>
            /\ UNCHANGED <<record, fault>>
       ELSE /\ pc' = "fault" /\ fault' = "KeyboardInterrupt" /\ out' = <<>>
            /\ record' = <<>> /\ shown' = <<>>
    /\ UNCHANGED <<table, backup, seed, clock, runs>>
    /\ UNCHANGED codecVars

Next ==
    \/ Start \/ MenuInput \/ EnterName \/ EnterQuantity \/ EnterPrice \/ EnterId
    \/ Keypress \/ Interrupt

Spec == Init /\ [][Next]_vars

---------------------------------------------------------------------------
(* The conversions as a specification of their own *)

SessIdle ==
    /\ pc = "off" /\ table = <<>> /\ record = <<>> /\ out = <<>> /\ shown = <<>>
    /\ fault = "none" /\ backup = <<>> /\ seed = <<>> /\ clock = 1 /\ runs = 0 /\ input = <<>>

CodecInit ==
    /\ SessIdle
    /\ DateIdle
    /\ stage = "input"
    /\ cents \in 0..MaxCents
    /\ text = <<>>
    /\ decoded = NoDecoded

Encode ==
    /\ stage = "input"
    /\ text' = format_price_int_to_str(cents)
    /\ stage' = "encoded"
    /\ UNCHANGED <<cents, decoded, dstage, datetext, datetime, dateout>>
    /\ UNCHANGED sessVars

Decode ==
    /\ stage = "encoded"
    /\ decoded' = format_price_str_to_int(text)
    /\ stage' = "decoded"
    /\ UNCHANGED <<cents, text, dstage, datetext, datetime, dateout>>
    /\ UNCHANGED sessVars

CodecNext == Encode \/ Decode

CodecSpec == CodecInit /\ [][CodecNext]_vars

(* format_price_str_to_int applied to texts *)

PriceAlphabet == {"$", ".", "-", "5", "x"}

TextsUpTo(n) == UNION { [1..k -> PriceAlphabet] : k \in 0..n }

PriceTexts ==
    TextsUpTo(MaxTextLen)
        \cup { <<"$", "1", "2", ".", "5", "0">>, <<"$", "7">>, <<"$", "1", "2", ".", "5">> }

PriceTextInit ==
    /\ SessIdle
    /\ DateIdle
    /\ stage = "text"
    /\ cents = 0
    /\ text \in PriceTexts
    /\ decoded = NoDecoded

DecodeText ==
    /\ stage = "text"
    /\ decoded' = format_price_str_to_int(text)
    /\ stage' = IF decoded'.ok THEN "decoded" ELSE "raised"
    /\ UNCHANGED <<cents, text, dstage, datetext, datetime, dateout>>
    /\ UNCHANGED sessVars

PriceTextNext == DecodeText

PriceTextSpec == PriceTextInit /\ [][PriceTextNext]_vars

(* The date conversions applied to texts *)

\* month/day/year as text, month and day with or without a leading zero
DateText(m, d, y, padded) ==
    (IF padded THEN Pad2(m) ELSE NatToStr(m)) \o <<"/">>
    \o (IF padded THEN Pad2(d) ELSE NatToStr(d)) \o <<"/">> \o NatToStr(y)

DateTexts ==
    { DateText(m, d, y, padded) :
        m \in 1..13, d \in {1, 4, 25, 29, 30, 31, 32}, y \in {2020, 2021},
        padded \in BOOLEAN }
    \cup { <<>>, <<"3", "-", "4", "-", "2", "0", "2", "1">>, <<"3", "/", "4", "/", "2", "1">> }

DateInit ==
    /\ SessIdle
    /\ PriceIdle
    /\ dstage = "input"
    /\ datetext \in DateTexts
    /\ datetime = NoDt
    /\ dateout = <<>>

\* format_date_str_to_datetime(datetext); with no text it returns datetime.now()
DecodeDate ==
    /\ dstage = "input"
    /\ datetime' = format_date_str_to_datetime(datetext, Moments[clock])
    /\ dstage' = IF datetime'.ok THEN "decoded" ELSE "raised"
    /\ UNCHANGED <<datetext, dateout, stage, cents, text, decoded>>
    /\ UNCHANGED sessVars

\* format_date_datetime_to_str(datetime)
EncodeDate ==
    /\ dstage = "decoded"
    /\ dateout' = format_date_datetime_to_str(datetime.val)
    /\ dstage' = "encoded"
    /\ UNCHANGED <<datetext, datetime, stage, cents, text, decoded>>
    /\ UNCHANGED sessVars

DateNext == DecodeDate \/ EncodeDate

DateSpec == DateInit /\ [][DateNext]_vars

---------------------------------------------------------------------------
(* Properties *)

\* what a step of the menu loop makes of the line it read
Choice(line) == PyStrip(PyLower(line))

\* the step is the end of an interactive add: the price was read and
\* add_record_to_db returned
AddStep == pc = "add_price" /\ pc' = "menu"

\* the step is a start of the program
StartStep == pc \in {"off", "done", "fault"} /\ runs' = runs + 1

RowsNamed(tbl, name) == {i \in 1..Len(tbl) : tbl[i].product_name = name}

\* C1: upsert by name.  An add whose name no stored row has creates exactly
\* one new row with a fresh id; an add whose name a stored row has creates no
\* row, sets that row's quantity and price to the incoming values, and changes
\* its updated_at only if the incoming timestamp is strictly later.
C1_UpsertByName ==
    [][ AddStep =>
          LET name  == record[1]
              price == format_price_str_to_int(input').val
              now   == Moments[clock']
          IN  IF NameExists(table, name)
              THEN /\ Len(table') = Len(table)
                   /\ \E i \in RowsNamed(table, name) :
                        /\ table'[i].product_quantity = record[2]
                        /\ table'[i].product_price = price
                        /\ table'[i].date_updated =
                              IF Later(now, table[i].date_updated)
                              THEN now ELSE table[i].date_updated
              ELSE /\ Len(table') = Len(table) + 1
                   /\ SubSeq(table', 1, Len(table)) = table
                   /\ table'[Len(table')].product_name = name
                   /\ \A i \in 1..Len(table) :
                        table[i].product_id # table'[Len(table')].product_id
      ]_vars

\* the seed file holds two rows of one name, which no stored row has
TwoRowsOfNewName(name) ==
    /\ seed # <<>>
    /\ Cardinality({k \in 1..Len(seed[1]) : seed[1][k][1] = name}) = 2
    /\ ~NameExists(table, name)

\* C2: importing a seed file with two rows of the same product_name, into a
\* table that holds no row of that name, leaves exactly one stored row of that
\* name.
C2_DuplicateSeedNameOneRow ==
    [][ \A name \in NameLines \cup {<<"g">>} :
          (StartStep /\ pc' = "menu" /\ TwoRowsOfNewName(name))
              => Cardinality(RowsNamed(table', name)) = 1
      ]_vars

\* C3: in every reachable state every stored price is a non-negative number
\* of cents.
C3_PriceNonNegative ==
    \A i \in 1..Len(table) : table[i].product_price >= 0

\* C4: price round trip: for every cents value c in 0..MaxCents, decoding the
\* encoding of c gives c.
C4_PriceRoundTrip ==
    stage = "decoded" => (decoded.ok /\ decoded.val = cents)

C4_Witness ==
    /\ stage = "decoded" /\ cents = 99999
    /\ text = <<"$", "9", "9", "9", ".", "9", "9">>
    /\ decoded.ok /\ decoded.val = 99999

\* a valid price text: an optional leading '$', digits, at most one '.'
ValidPriceText(s) ==
    LET body == IF s # <<>> /\ s[1] = "$" THEN Tail(s) ELSE s
    IN  /\ \E i \in 1..Len(body) : IsDigit(body[i])
        /\ \A i \in 1..Len(body) : IsDigit(body[i]) \/ body[i] = "."
        /\ Cardinality({i \in 1..Len(body) : body[i] = "."}) <= 1

\* C5: user input errors are never fatal.  At the quantity, price and id
\* prompts a line that is not a valid integer, or not a valid price, gives an
\* error message and the same prompt again with the table unchanged, and no
\* line at these prompts ends the session with an unhandled fault.
C5_InputErrorsNotFatal ==
    [][ (pc \in {"add_quantity", "add_price", "view_id"} /\ input' # Interrupted) =>
          /\ pc' # "fault"
          /\ (pc \in {"add_quantity", "view_id"} /\ ~PyInt(input').ok)
                => (pc' = pc /\ out' # <<>> /\ table' = table)
          /\ (pc = "add_price" /\ ~ValidPriceText(input'))
                => (pc' = pc /\ out' # <<>> /\ table' = table)
      ]_vars

\* C6: looking up an id that no stored product has gives the not-found
\* message and no fault: the session goes back to the menu with the table
\* unchanged.
C6_LookupMissNotFatal ==
    [][ ( /\ pc = "view_id"
          /\ PyInt(input').ok
          /\ \A i \in 1..Len(table) : table[i].product_id # PyInt(input').val )
        => ( /\ pc' = "menu"
             /\ fault' = "none"
             /\ out' # <<>> /\ out'[1] = NotFoundMessage
             /\ shown' = <<>>
             /\ table' = table )
      ]_vars

C6_Witness ==
    /\ pc = "menu" /\ out # <<>> /\ out[1] = NotFoundMessage
    /\ input = <<"3">> /\ Len(table) = 2
    /\ fault = "none"

\* C7: menu dispatch.  At the menu a line that trimmed and lowercased is 'a',
\* 'v' or 'b' runs that command, which then returns to the menu; 'q' ends the
\* session; any other line runs nothing, leaves the table unchanged and shows
\* the menu again.  The session ends only through 'q' entered at the menu.
C7_MenuDispatch ==
    [][ (input' # Interrupted) =>
        /\ (pc = "menu") =>
             LET c == Choice(input')
             IN  /\ c = <<"a">> => pc' = "add_name"
                 /\ c = <<"v">> => pc' = "view_id"
                 /\ c = <<"b">> => (pc' = "menu" /\ backup' = BackupContent(table))
                 /\ c = <<"q">> => pc' = "done"
                 /\ c \notin {<<"a">>, <<"v">>, <<"b">>, <<"q">>}
                       => (pc' = "menu" /\ table' = table /\ backup' = backup)
        /\ (pc \in {"add_name", "add_quantity", "add_price", "view_id", "keypress"})
              => pc' \in {pc, "menu", "add_quantity", "add_price", "keypress"}
        /\ (pc \notin {"off", "done", "fault"} /\ pc' \in {"done", "fault"})
              => (pc = "menu" /\ Choice(input') = <<"q">> /\ pc' = "done")
      ]_vars

\* the lines of a file content: the pieces its line ends close
FileLines(content) ==
    LET pieces == SplitOn(content, "\n")
    IN  SubSeq(pieces, 1, Len(pieces) - 1)

\* C8: the export writes exactly one line per stored product and no header,
\* each line being exactly the five comma-separated fields id, name, encoded
\* price, quantity, encoded date, whatever name the user entered; the old
\* content of the file is gone, and an empty table gives a file of no line.
C8_ExportFiveFields ==
    [][ (pc = "menu" /\ Choice(input') = <<"b">> /\ pc' = "menu") =>
          LET lines == FileLines(backup')
          IN  /\ Len(lines) = Len(table)
              /\ \A i \in 1..Len(lines) :
                   LET f == SplitOn(lines[i], ",")
                   IN  /\ Len(f) = 5
                       /\ f[1] = PyStr(table[i].product_id)
                       /\ f[2] = table[i].product_name
                       /\ f[3] = format_price_int_to_str(table[i].product_price)
                       /\ f[4] = PyStr(table[i].product_quantity)
                       /\ f[5] = format_date_datetime_to_str(table[i].date_updated)
      ]_vars

\* C9: with the seed file absent at startup the import prints its notice and
\* returns: the table is left as it was and the session is at the menu.
C9_AbsentSeedTolerated ==
    [][ (StartStep /\ seed = <<>>) =>
          ( /\ table' = table
            /\ pc' = "menu"
            /\ fault' = "none"
            /\ out' # <<>> /\ out'[1] = NoSeedNotice )
      ]_vars

C9_Witness ==
    /\ pc = "menu" /\ seed = <<>> /\ runs = 2 /\ input = <<>>
    /\ Len(table) = 2
    /\ out # <<>> /\ out[1] = NoSeedNotice

\* a row whose price or date text cannot be decoded
Malformed(row) ==
    /\ Len(row) >= 2
    /\ \/ ~format_price_str_to_int(row[2]).ok
       \/ Len(row) >= 4 /\ row[4] # <<>> /\ ~StrpTime(row[4]).ok

\* row k is the first malformed row of the seed file, and the rows before it
\* are complete
FirstMalformed(k) ==
    /\ seed # <<>>
    /\ k \in 1..Len(seed[1])
    /\ Malformed(seed[1][k])
    /\ \A j \in 1..(k - 1) : ~Malformed(seed[1][j]) /\ Len(seed[1][j]) >= 3

\* C10 as stated: a malformed seed row fails the whole import, and the table
\* after the failed import holds none of that file's rows.
C10_FailedImportStoresNothing ==
    [][ (StartStep /\ \E k \in 1..SeedLen : FirstMalformed(k))
          => (pc' = "fault" /\ table' = table)
      ]_vars

\* C10 as amended: a malformed seed row ends the import in a ValueError that
\* is not caught, no row at or after it is stored and no value of it is
\* stored, while the rows before it have been stored and stay.
C10_FailedImportKeepsPrefix ==
    [][ \A k \in 1..SeedLen :
          (StartStep /\ FirstMalformed(k)) =>
             /\ pc' = "fault"
             /\ fault' = "ValueError"
             /\ Len(table') = Len(table) + (k - 1)
             /\ SubSeq(table', 1, Len(table)) = table
             /\ \A j \in 1..(k - 1) :
                  LET row == table'[Len(table) + j]
                  IN  /\ row.product_name = seed[1][j][1]
                      /\ row.product_price = format_price_str_to_int(seed[1][j][2]).val
      ]_vars

C10_Witness ==
    /\ pc = "fault" /\ fault = "ValueError" /\ runs = 1
    /\ seed = << <<W1, BadPrice, G1>> >>
    /\ Len(table) = 1 /\ table[1].product_name = <<"w">>

\* C11: product identity is stable.  The stored ids are pairwise distinct in
\* every state, and no step deletes a stored product or changes its id: the
\* set of stored ids only grows.  (The table is empty at first, and every
\* later state is the state after a step.)
C11_IdentityStable ==
    [][ /\ \A i, j \in 1..Len(table') :
             i # j => table'[i].product_id # table'[j].product_id
        /\ Len(table') >= Len(table)
        /\ \A i \in 1..Len(table) : table'[i].product_id = table[i].product_id
        /\ {table[i].product_id : i \in 1..Len(table)}
              \subseteq {table'[i].product_id : i \in 1..Len(table')}
      ]_vars

C11_Witness ==
    /\ pc = "menu" /\ runs = 2 /\ Len(table) = 3
    /\ {table[i].product_id : i \in 1..3} = {1, 2, 3}

\* C12: decode_price strips a leading currency symbol; with a decimal point
\* it removes the point and reads the digits as cents, without one it reads
\* the digits as whole units and multiplies by 100; and it fails whenever what
\* remains is not purely digits (a sign, a '$' that is not leading).
C12_DecodePrice ==
    (stage \in {"decoded", "raised"}) =>
        LET rest  == IF text # <<>> /\ text[1] = "$" THEN Tail(text) ELSE text
            point == \E i \in 1..Len(rest) : rest[i] = "."
            body  == IF point THEN ReSub({"."}, rest) ELSE rest
        IN  IF IsDigits(body)
            THEN /\ stage = "decoded"
                 /\ decoded.val = IF point THEN DigitsVal(body) ELSE 100 * DigitsVal(body)
            ELSE stage = "raised"

\* C13: encode_price renders every non-negative cents value as '$', an
\* integer part of at least one digit, '.', and exactly two fractional digits,
\* with no separator: $0.0c for one digit, $0.cc for two, the last two digits
\* split off otherwise (5 gives $0.05, 150 gives $1.50).
C13_EncodePrice ==
    (stage \in {"encoded", "decoded"}) =>
        /\ text = <<"$">> \o NatToStr(cents \div 100) \o <<".">>
                    \o <<Digits[((cents % 100) \div 10) + 1], Digits[(cents % 10) + 1]>>
        /\ cents = 5 => text = <<"$", "0", ".", "0", "5">>
        /\ cents = 150 => text = <<"$", "1", ".", "5", "0">>

C13_Witness ==
    /\ stage = "encoded" /\ cents = 150
    /\ text = <<"$", "1", ".", "5", "0">>

\* C14: the date codec.  decode_date parses M/D/YYYY text to that day at
\* 00:00, and encode_date formats a timestamp as M/D/YYYY without zero
\* padding, so that "3/4/2021" decoded and encoded again is "3/4/2021".
C14_DateCodec ==
    (dstage \in {"decoded", "encoded"} /\ datetext # <<>>) =>
        LET parts == SplitOn(datetext, "/")
            m == DigitsVal(parts[1])
            d == DigitsVal(parts[2])
            y == DigitsVal(parts[3])
        IN  /\ datetime.val = [y |-> y, m |-> m, d |-> d, t |-> 0]
            /\ dstage = "encoded" => dateout = DateText(m, d, y, FALSE)

\* C15: view ordering.  With the id of a stored product the session shows
\* id, name, encoded price, quantity and encoded date and then waits for a key
\* before it is back at the menu; with any other id it shows the not-found
\* message and is back at the menu with no wait.  The not-found message is
\* shown only when no stored product has the entered id.
C15_ViewOrdering ==
    [][ /\ (pc = "view_id" /\ PyInt(input').ok) =>
             LET id == PyInt(input').val
             IN  IF \E i \in 1..Len(table) : table[i].product_id = id
                 THEN /\ pc' = "keypress"
                      /\ \E i \in 1..Len(table) :
                           /\ table[i].product_id = id
                           /\ shown' = << [product_id |-> PyStr(id),
                                           product_name |-> table[i].product_name,
                                           price |-> format_price_int_to_str(table[i].product_price),
                                           quantity |-> PyStr(table[i].product_quantity),
                                           date |-> format_date_datetime_to_str(table[i].date_updated)] >>
                 ELSE /\ pc' = "menu"
                      /\ out' # <<>> /\ out'[1] = NotFoundMessage
        /\ (pc = "keypress") => pc' = "menu"
        /\ (\E k \in 1..Len(out') : out'[k] = NotFoundMessage) =>
             /\ pc = "view_id"
             /\ PyInt(input').ok
             /\ \A i \in 1..Len(table) : table[i].product_id # PyInt(input').val
      ]_vars

\* C16: a failure to open the backup destination is fatal for the backup only:
\* whether or not the file could be opened, the backup command leaves the table
\* unchanged and the session at the menu, and a backup that wrote nothing leaves
\* the file as it was.
C16_BackupOpenFailureNotFatal ==
    [][ (pc = "menu" /\ input' # Interrupted /\ Choice(input') = <<"b">>) =>
          /\ pc' = "menu"
          /\ fault' = "none"
          /\ table' = table
          /\ backup' \in {backup, BackupContent(table)}
      ]_vars

\* C17: startup is idempotent on the stored rows' identity: a later start
\* against the same seed file creates no new row, and the table holds exactly
\* one row per distinct product_name of the seed file.
C17_StartupIdempotent ==
    [][ (StartStep /\ runs >= 1 /\ seed # <<>> /\ pc' = "menu") =>
          /\ Len(table') = Len(table)
          /\ \A k \in 1..SeedLen :
               Cardinality(RowsNamed(table', seed[1][k][1])) = 1
      ]_vars

\* C18: the view and backup commands are read-only: no step of either changes
\* the set of stored rows or a field of a row; only the import and the add
\* change the table.
C18_ViewBackupReadOnly ==
    [][ /\ ( \/ pc \in {"view_id", "keypress"}
             \/ pc = "menu" /\ Choice(input') \in {<<"v">>, <<"b">>} )
           => table' = table
        /\ (table' # table) => (StartStep \/ pc = "add_price")
      ]_vars

C18_Witness ==
    /\ pc = "keypress" /\ input = <<"2">> /\ shown # <<>>
    /\ Len(table) = 2
    /\ backup = BackupContent(table)

=============================================================================
